---- MODULE Spec2Model ----
(***************************************************************************)
(* A model of dxr/vcs.py: discovery of the version-control roots of a tree *)
(* (tree_to_repos), the per-path resolver (VcsCache.vcs_for_path), the     *)
(* derivation of a Git handle's upstream URL and file_contents_at_rev.     *)
(*                                                                         *)
(* Strings are sequences of one-character strings, a path is the sequence  *)
(* of its component names, so that len(), startswith() and relpath() are   *)
(* computed on the text as the code computes them.                         *)
(***************************************************************************)
EXTENDS Integers, Sequences, FiniteSets, TLC

(* ------------------------------ bounds -------------------------------- *)
MaxMarked == 2      \* directories of the file system that hold a marker
MaxTracked == 1     \* files one backend reports as tracked
MaxRemotes == 2     \* remotes `git remote -v` lists

(* ------------------------------ text ---------------------------------- *)
SLASH == <<"/">>
DOT == <<".">>
DOTDOT == <<".", ".">>

RECURSIVE Join(_, _)
\* sep.join(parts)
Join(sep, parts) ==
    IF parts = <<>> THEN <<>>
    ELSE IF Len(parts) = 1 THEN parts[1]
    ELSE parts[1] \o sep \o Join(sep, Tail(parts))

\* s.startswith(prefix)
StartsWith(s, prefix) ==
    /\ Len(s) >= Len(prefix)
    /\ SubSeq(s, 1, Len(prefix)) = prefix

\* s.endswith(suffix)
EndsWith(s, suffix) ==
    /\ Len(s) >= Len(suffix)
    /\ SubSeq(s, Len(s) - Len(suffix) + 1, Len(s)) = suffix

\* s[n:]
Drop(s, n) == IF n >= Len(s) THEN <<>> ELSE SubSeq(s, n + 1, Len(s))

(* ------------------------------ paths --------------------------------- *)
A == <<"a">>
BB == <<"b", "b">>
DC == <<".", ".", "c">>           \* a file whose name begins with two dots
F == <<"f">>
HG == <<".", "h", "g">>
GIT == <<".", "g", "i", "t">>
P4CFG == <<".", "p", "4">>        \* the file os.environ['P4CONFIG'] names

ROOT == <<>>                      \* '/'
Dirs == {ROOT, <<A>>, <<A, BB>>}
Files == {<<A, F>>, <<A, BB, F>>, <<A, BB, DC>>}
Markers == {HG, GIT, P4CFG}

IsPrefix(d, p) == Len(d) <= Len(p) /\ SubSeq(p, 1, Len(d)) = d
ProperSubdir(d, e) == IsPrefix(e, d) /\ d # e
Children(d) == {n \in {A, BB} : d \o <<n>> \in Dirs}

\* the text of an absolute path
AbsText(p) == IF p = <<>> THEN SLASH ELSE SLASH \o Join(SLASH, p)

\* os.path.dirname of an absolute directory
Dirname(d) == IF d = <<>> THEN <<>> ELSE SubSeq(d, 1, Len(d) - 1)

RECURSIVE CommonLen(_, _)
CommonLen(p, q) ==
    IF p = <<>> \/ q = <<>> \/ Head(p) # Head(q) THEN 0
    ELSE 1 + CommonLen(Tail(p), Tail(q))

\* os.path.relpath(path, start): the components, then their text
RelParts(path, start) ==
    LET i == CommonLen(path, start)
        ups == [k \in 1..(Len(start) - i) |-> DOTDOT]
    IN ups \o Drop(path, i)

Relpath(path, start) ==
    LET parts == RelParts(path, start)
    IN IF parts = <<>> THEN DOT ELSE Join(SLASH, parts)

(* ------------------------------ more text ----------------------------- *)
NL == "\n"
Whitespace == {" ", "\t", NL}

RECURSIVE SplitOn(_, _)
\* s.split(c)
SplitOn(s, c) ==
    IF \A k \in 1..Len(s) : s[k] # c THEN <<s>>
    ELSE LET k == CHOOSE n \in 1..Len(s) : s[n] = c /\ \A m \in 1..(n - 1) : s[m] # c
         IN <<SubSeq(s, 1, k - 1)>> \o SplitOn(Drop(s, k), c)

RECURSIVE Split(_)
\* s.split(): the runs of characters that are not whitespace
Split(s) ==
    IF s = <<>> THEN <<>>
    ELSE IF Head(s) \in Whitespace THEN Split(Tail(s))
    ELSE LET ends == {n \in 1..Len(s) : s[n] \in Whitespace}
             k == IF ends = {} THEN Len(s) + 1
                  ELSE CHOOSE n \in ends : \A m \in ends : n <= m
         IN <<SubSeq(s, 1, k - 1)>> \o Split(Drop(s, k - 1))

\* dxr.utils.without_ending(ending, string)
without_ending(ending, string) ==
    IF EndsWith(string, ending) THEN SubSeq(string, 1, Len(string) - Len(ending))
    ELSE string

Origin == <<"o", "r", "i", "g", "i", "n">>
Fork == <<"f", "o", "r", "k">>
GitAtGithub == <<"g", "i", "t", "@", "g", "i", "t", "h", "u", "b", ".", "c", "o", "m", ":">>
GitGithub == <<"g", "i", "t", ":", "/", "/", "g", "i", "t", "h", "u", "b", ".", "c", "o", "m", "/">>
HttpsGithub == <<"h", "t", "t", "p", "s", ":", "/", "/", "g", "i", "t", "h", "u", "b", ".", "c", "o", "m", "/">>
HttpsElsewhere == <<"h", "t", "t", "p", "s", ":", "/", "/", "h", ".", "o", "r", "g", "/">>
DotGit == <<".", "g", "i", "t">>
GitColon == <<"g", "i", "t", ":">>
GitScheme == <<"g", "i", "t">>
HttpsScheme == <<"h", "t", "t", "p", "s">>
FetchTag == <<"(", "f", "e", "t", "c", "h", ")">>
PushTag == <<"(", "p", "u", "s", "h", ")">>

(* ------------------------------ state --------------------------------- *)
VARIABLES
    source_folder,  \* tree.source_folder
    fs,             \* the file system: directory -> the markers it holds
    p4env,          \* 'P4CONFIG' in os.environ
    phase,          \* where tree_to_repos is: walk, claim, up, upclaim, sort, done, raised
    stack,          \* directories os.walk has still to yield
    cwd,            \* the directory os.walk yielded last
    dirs,           \* its list of subdirectories, which a claim may prune
    vi,             \* index into every_vcs of the backend tried next
    sources,        \* tree_to_repos' dict root -> Vcs object
    directory,      \* the cursor of the upward walk
    constructed,    \* history: how many Vcs objects were constructed
    raised,         \* the failed backend invocations that left tree_to_repos as exceptions
    repos,          \* VcsCache.repos: the ordered mapping, as a sequence of items
    path_cache,     \* VcsCache._path_cache
    answered,       \* history: path -> the results vcs_for_path has returned for it
    recalled,       \* history: a path already resolved was answered from the cache
    rescanned,      \* history: a path already resolved was resolved by iterating again
    skipped,        \* history: <<path, root>> the loop of vcs_for_path passed over
    probed,         \* history: <<path, root>> whose is_tracked the loop called
    remotes,        \* the remotes of the Git checkout, as configured
    url_lines,      \* _construct_upstream_url: the lines of source_urls still to read
    url_pc,         \* _construct_upstream_url: idle, loop, done
    upstream,       \* what _construct_upstream_url returned
    warned,         \* _construct_upstream_url called warn()
    installed,      \* the backend executables present on the system
    serves,         \* the backend executables that exit 0 for the file at the revision
    abspath,        \* file_contents_at_rev: its first argument
    revision,       \* file_contents_at_rev: its second argument
    fetch_i,        \* file_contents_at_rev: index of the class tried next
    fetch_pc,       \* file_contents_at_rev: idle, loop, returned, raised
    fetch_result    \* what file_contents_at_rev returned

world == <<source_folder, fs, p4env>>
walk == <<phase, stack, cwd, dirs, vi, sources, directory, constructed, raised>>
session == <<repos, path_cache, answered, recalled, rescanned, skipped, probed>>
url == <<remotes, url_lines, url_pc, upstream, warned>>
fetch == <<installed, serves, abspath, revision, fetch_i, fetch_pc, fetch_result>>
vars == <<world, walk, session, url, fetch>>

(* ------------------------------ handles ------------------------------- *)
every_vcs == <<"Mercurial", "Git", "Perforce">>

\* the absent result (Python's None), shaped like a handle so that results compare
NoVcs == [kind |-> "None", root |-> ROOT, tracked |-> {}]

FilesUnder(root) == {f \in Files : IsPrefix(root, f)}

\* what a backend may report as the tracked files of the checkout at root
TrackedChoices(root) == {T \in SUBSET FilesUnder(root) : Cardinality(T) <= MaxTracked}

\* Mercurial.__init__: previous_revisions is keyed by repository-relative path
Mercurial(root, T) ==
    [kind |-> "Mercurial", root |-> root,
     tracked |-> {Relpath(f, root) : f \in T}]

\* Git.__init__: tracked_files are the lines of `git ls-files`
Git(root, T) ==
    [kind |-> "Git", root |-> root,
     tracked |-> {Relpath(f, root) : f \in T}]

\* Perforce.__init__: have is keyed by x['path'][len(root) + 1:]
Perforce(root, T) ==
    [kind |-> "Perforce", root |-> root,
     tracked |-> {Drop(AbsText(f), Len(AbsText(root)) + 1) : f \in T}]

\* cls(path), the object being the one constructed for this root by this backend
Construct(vcs, root, T) ==
    IF vcs = "Mercurial" THEN Mercurial(root, T)
    ELSE IF vcs = "Git" THEN Git(root, T)
    ELSE Perforce(root, T)

\* the absent results (Python's None) of the URL derivation and of the fetch
NoUrl == [none |-> TRUE, text |-> <<>>]
NoContent == [none |-> TRUE, command |-> "", cwd |-> ROOT, args |-> <<>>]

\* is_tracked of the three backends: membership in the state frozen at construction
IsTracked(vcs, path) == path \in vcs.tracked

\* the test of claim_vcs_source: does backend vcs find its marker at path?
Claims(vcs, path, listing) ==
    IF vcs = "Mercurial" THEN HG \in listing
    ELSE IF vcs = "Git" THEN GIT \in listing
    ELSE p4env /\ path \in Dirs /\ P4CFG \in fs[path]

\* the listing after claim_vcs_source: dirs.remove('.hg') / dirs.remove('.git')
Pruned(vcs, listing) ==
    IF vcs = "Mercurial" THEN listing \ {HG}
    ELSE IF vcs = "Git" THEN listing \ {GIT}
    ELSE listing

\* the subdirectories os.walk lists for a directory, the entries os.listdir lists
WalkDirs(d) == IF d \in Dirs THEN Children(d) \cup (fs[d] \cap {HG, GIT}) ELSE {}
ListDir(d) ==
    IF d \in Dirs
    THEN WalkDirs(d) \cup (fs[d] \cap {P4CFG}) \cup {f[Len(f)] : f \in {g \in Files : Dirname(g) = d}}
    ELSE {}

\* the orders in which a set may be listed
Orders(S) ==
    {o \in [1..Cardinality(S) -> S] : \A i, j \in 1..Cardinality(S) : i # j => o[i] # o[j]}

(* --------------------------- tree_to_repos ---------------------------- *)
SourceFolders == {<<A>>, <<A, BB>>}

\* len(key), the sort key of lookup_order
KeyLen(d) == Len(AbsText(d))

\* lookup_order without reverse=True: shortest key first
LookupOrdersAscending(src) ==
    {o \in Orders(DOMAIN src) :
        \A i, j \in 1..Len(o) : i < j => KeyLen(o[i]) <= KeyLen(o[j])}

\* sorted(sources.keys(), key=len, reverse=True): the keys of a dict come in an
\* order the language leaves open, and the sort keeps it among keys of equal length
LookupOrders(src) ==
    {o \in Orders(DOMAIN src) :
        \A i, j \in 1..Len(o) : i < j => KeyLen(o[i]) >= KeyLen(o[j])}

\* the guard of the upward loop without its test of sources
UpwardToTheTop(d, src) == d # ROOT

\* the guard of the upward loop
UpwardContinues(d, src) == d # ROOT /\ d \notin DOMAIN src

\* sources[root] = attempt
Record(src, root, vcs) == (root :> vcs) @@ src

\* no Git handle is being constructed
UrlIdle ==
    /\ remotes = <<>>
    /\ url_lines = <<>>
    /\ url_pc = "idle"
    /\ upstream = NoUrl
    /\ warned = FALSE

\* no content is being fetched
FetchIdle ==
    /\ installed = {}
    /\ serves = {}
    /\ abspath = <<A, F>>
    /\ revision = <<>>
    /\ fetch_i = 1
    /\ fetch_pc = "idle"
    /\ fetch_result = NoContent

Init ==
    /\ UrlIdle
    /\ FetchIdle
    /\ source_folder \in SourceFolders
    /\ fs \in {m \in [Dirs -> SUBSET Markers] :
                  Cardinality({d \in Dirs : m[d] # {}}) <= MaxMarked}
    /\ p4env \in BOOLEAN
    \* without the variable there is no file that it names
    /\ p4env \/ \A d \in Dirs : P4CFG \notin fs[d]
    /\ phase = "walk"
    /\ stack = <<source_folder>>
    /\ cwd = source_folder
    /\ dirs = {}
    /\ vi = 1
    /\ sources = <<>>
    /\ directory = source_folder
    /\ constructed = 0
    /\ raised = {}
    /\ repos = <<>>
    /\ path_cache = <<>>
    /\ answered = <<>>
    /\ recalled = FALSE
    /\ rescanned = FALSE
    /\ skipped = {}
    /\ probed = {}

\* os.walk yields the next directory, top-down
WalkNext ==
    /\ phase = "walk" /\ stack # <<>>
    /\ cwd' = Head(stack)
    /\ dirs' = WalkDirs(Head(stack))
    /\ stack' = Tail(stack)
    /\ vi' = 1
    /\ phase' = "claim"
    /\ UNCHANGED <<world, url, fetch, session, sources, directory, constructed, raised>>

\* one turn of `for vcs in every_vcs` in the downward walk
DownClaim ==
    /\ phase = "claim" /\ vi <= Len(every_vcs)
    /\ LET vcs == every_vcs[vi] IN
        IF Claims(vcs, cwd, dirs)
        THEN /\ dirs' = Pruned(vcs, dirs)
             /\ \/ \E T \in TrackedChoices(cwd) :
                    /\ sources' = Record(sources, cwd, Construct(vcs, cwd, T))
                    /\ constructed' = constructed + 1
                    /\ vi' = vi + 1
                    /\ UNCHANGED <<phase, raised>>
                \* the backend invocation of the constructor fails: nothing catches it
                \/ /\ phase' = "raised"
                   /\ raised' = raised \cup {<<cwd, vcs>>}
                   /\ UNCHANGED <<sources, constructed, vi>>
        ELSE /\ vi' = vi + 1
             /\ UNCHANGED <<dirs, sources, constructed, phase, raised>>
    /\ UNCHANGED <<world, url, fetch, session, stack, cwd, directory>>

\* every backend was tried: os.walk goes on into what is left of dirs
Descend ==
    /\ phase = "claim" /\ vi > Len(every_vcs)
    /\ \E o \in Orders(dirs) :
        stack' = [i \in 1..Len(o) |-> cwd \o <<o[i]>>] \o stack
    /\ phase' = "walk"
    /\ UNCHANGED <<world, url, fetch, session, cwd, dirs, vi, sources, directory, constructed, raised>>

\* os.walk is exhausted: directory = tree.source_folder
WalkEnd ==
    /\ phase = "walk" /\ stack = <<>>
    /\ directory' = source_folder
    /\ phase' = "up"
    /\ UNCHANGED <<world, url, fetch, session, stack, cwd, dirs, vi, sources, constructed, raised>>

\* the test of the while loop and, when it holds, directory = dirname(directory)
UpStep ==
    /\ phase = "up"
    /\ IF UpwardContinues(directory, sources)
       THEN /\ directory' = Dirname(directory)
            /\ vi' = 1
            /\ phase' = "upclaim"
       ELSE /\ phase' = "sort"
            /\ UNCHANGED <<directory, vi>>
    /\ UNCHANGED <<world, url, fetch, session, stack, cwd, dirs, sources, constructed, raised>>

\* one turn of `for vcs in every_vcs` in the upward walk, on a fresh os.listdir
UpClaim ==
    /\ phase = "upclaim" /\ vi <= Len(every_vcs)
    /\ LET vcs == every_vcs[vi] IN
        IF Claims(vcs, directory, ListDir(directory))
        THEN \/ \E T \in TrackedChoices(directory) :
                    /\ sources' = Record(sources, directory,
                                         Construct(vcs, directory, T))
                    /\ constructed' = constructed + 1
                    /\ vi' = vi + 1
                    /\ UNCHANGED <<phase, raised>>
             \/ /\ phase' = "raised"
                /\ raised' = raised \cup {<<directory, vcs>>}
                /\ UNCHANGED <<sources, constructed, vi>>
        ELSE /\ vi' = vi + 1
             /\ UNCHANGED <<sources, constructed, phase, raised>>
    /\ UNCHANGED <<world, url, fetch, session, stack, cwd, dirs, directory>>

\* every backend was tried at this ancestor: back to the test of the while loop
UpLoop ==
    /\ phase = "upclaim" /\ vi > Len(every_vcs)
    /\ phase' = "up"
    /\ UNCHANGED <<world, url, fetch, session, stack, cwd, dirs, vi, sources, directory, constructed, raised>>

QueryPaths == {Drop(f, Len(source_folder)) : f \in FilesUnder(source_folder)}

\* the OrderedDict is built in lookup order and VcsCache.__init__ keeps it
Finish ==
    /\ phase = "sort"
    /\ \E o \in LookupOrders(sources) :
        repos' = [i \in 1..Len(o) |-> [root |-> o[i], vcs |-> sources[o[i]]]]
    /\ path_cache' = <<>>
    /\ answered' = [p \in QueryPaths |-> {}]
    /\ phase' = "done"
    \* the locals of tree_to_repos end with the call
    /\ cwd' = source_folder /\ dirs' = {} /\ vi' = 1 /\ directory' = source_folder
    /\ UNCHANGED <<world, url, fetch, stack, sources, constructed, raised, recalled, rescanned,
                   skipped, probed>>

Discover ==
    \/ WalkNext
    \/ DownClaim
    \/ Descend
    \/ WalkEnd
    \/ UpStep
    \/ UpClaim
    \/ UpLoop
    \/ Finish

(* ------------------------- VcsCache.vcs_for_path ----------------------- *)
\* abs_path = join(self.tree.source_folder, path)
AbsPath(path) == source_folder \o path

\* relpath(abs_path, directory).startswith('..')
Skips(abs, dir) == StartsWith(Relpath(abs, dir), DOTDOT)

RECURSIVE Hit(_, _, _)
\* the loop over self.repos.iteritems() from item i on: the index of the item it
\* breaks at, 0 when it runs to the end
Hit(rs, abs, i) ==
    IF i > Len(rs) THEN 0
    ELSE IF Skips(abs, rs[i].root) THEN Hit(rs, abs, i + 1)
    ELSE IF IsTracked(rs[i].vcs, Relpath(abs, rs[i].vcs.root)) THEN i
    ELSE Hit(rs, abs, i + 1)

\* a cache keyed by the file's name alone
CacheKeyBasename(path) == <<path[Len(path)]>>

\* the key of a path in self._path_cache
CacheKey(path) == path

\* self._path_cache[path] = vcs, which only a tracking root reaches
Remember(cache, path, rs, hit) ==
    IF hit = 0 THEN cache ELSE (CacheKey(path) :> rs[hit].vcs) @@ cache

\* self._path_cache.get(path)
CacheGet(cache, path) ==
    IF CacheKey(path) \in DOMAIN cache THEN cache[CacheKey(path)] ELSE NoVcs

VcsForPath(path) ==
    /\ phase = "done"
    /\ IF CacheKey(path) \in DOMAIN path_cache
       THEN /\ answered' = [answered EXCEPT ![path] = @ \cup {path_cache[CacheKey(path)]}]
            /\ recalled' = (recalled \/ answered[path] # {})
            /\ UNCHANGED <<path_cache, rescanned, skipped, probed>>
       ELSE /\ rescanned' = (rescanned \/ answered[path] # {})
            /\ UNCHANGED recalled
            /\ LET abs == AbsPath(path)
                   hit == Hit(repos, abs, 1)
                   seen == IF hit = 0 THEN 1..Len(repos) ELSE 1..hit
                   cache == Remember(path_cache, path, repos, hit)
               IN /\ path_cache' = cache
                  /\ answered' = [answered EXCEPT ![path] = @ \cup {CacheGet(cache, path)}]
                  /\ skipped' = skipped \cup
                        {<<path, repos[i].root>> : i \in {k \in seen : Skips(abs, repos[k].root)}}
                  /\ probed' = probed \cup
                        {<<path, repos[i].root>> : i \in {k \in seen : ~Skips(abs, repos[k].root)}}
    /\ UNCHANGED <<world, url, fetch, walk, repos>>

Resolve == \E path \in QueryPaths : VcsForPath(path)

Next ==
    \/ Discover
    \/ Resolve

Spec == Init /\ [][Next]_vars

\* tree_to_repos alone, which runs on without being scheduled against anything
DiscoverySpec == Init /\ [][Discover]_vars /\ WF_vars(Discover)

(* -------------------- Git._construct_upstream_url --------------------- *)
\* no tree is being discovered
TreeIdle ==
    /\ source_folder = <<A>>
    /\ fs = [d \in Dirs |-> {}]
    /\ p4env = FALSE
    /\ phase = "idle"
    /\ stack = <<>>
    /\ cwd = <<A>>
    /\ dirs = {}
    /\ vi = 1
    /\ sources = <<>>
    /\ directory = <<A>>
    /\ constructed = 0
    /\ raised = {}
    /\ repos = <<>>
    /\ path_cache = <<>>
    /\ answered = <<>>
    /\ recalled = FALSE
    /\ rescanned = FALSE
    /\ skipped = {}
    /\ probed = {}

RemoteNames == {Origin, Fork}
UrlForms == {GitAtGithub, GitGithub, HttpsGithub, HttpsElsewhere}
Orgs == {<<"o">>, <<"m", "o">>}
RepoNames == {<<"r">>}

Remotes ==
    [name : RemoteNames, form : UrlForms, org : Orgs, repo : RepoNames, dotgit : BOOLEAN]

\* the URL of a remote as configured
RemoteUrl(r) ==
    r.form \o r.org \o SLASH \o r.repo \o (IF r.dotgit THEN DotGit ELSE <<>>)

RECURSIVE RemoteV(_)
\* the output of `git remote -v`: a fetch line and a push line for every remote
RemoteV(rs) ==
    IF rs = <<>> THEN <<>>
    ELSE LET r == Head(rs)
         IN r.name \o <<"\t">> \o RemoteUrl(r) \o <<" ">> \o FetchTag \o <<NL>>
            \o r.name \o <<"\t">> \o RemoteUrl(r) \o <<" ">> \o PushTag \o <<NL>>
            \o RemoteV(Tail(rs))

Url(text) == [none |-> FALSE, text |-> text]

\* the branch for a GitHub remote in secure-shell syntax
SshUpstream(repo) == HttpsGithub \o Drop(repo, Len(GitAtGithub))

\* the branch for a GitHub remote in git:// or https:// syntax
WebUpstream(repo) ==
    LET stripped == without_ending(DotGit, repo)
    IN IF StartsWith(stripped, GitColon)
       THEN HttpsScheme \o Drop(stripped, Len(GitScheme))
       ELSE stripped

UrlInit ==
    /\ TreeIdle
    /\ FetchIdle
    /\ remotes \in UNION {[1..n -> Remotes] : n \in 0..MaxRemotes}
    \* source_urls = self.invoke_vcs(['remote', '-v'], self.root).split('\n')
    /\ url_lines = SplitOn(RemoteV(remotes), NL)
    /\ url_pc = "loop"
    /\ upstream = NoUrl
    /\ warned = FALSE

\* one turn of `for src_url in source_urls`
UrlLine ==
    /\ url_pc = "loop" /\ url_lines # <<>>
    /\ LET src_url == Head(url_lines) IN
        IF src_url = <<>>
        THEN /\ url_lines' = Tail(url_lines)
             /\ UNCHANGED <<url_pc, upstream, warned>>
        ELSE LET name == Split(src_url)[1]
                 repo == Split(src_url)[2]
             IN IF name # Origin
                THEN /\ url_lines' = Tail(url_lines)
                     /\ UNCHANGED <<url_pc, upstream, warned>>
                ELSE /\ url_pc' = "done"
                     /\ UNCHANGED url_lines
                     /\ IF StartsWith(repo, GitAtGithub)
                        THEN upstream' = Url(SshUpstream(repo)) /\ UNCHANGED warned
                        ELSE IF StartsWith(repo, GitGithub) \/ StartsWith(repo, HttpsGithub)
                        THEN upstream' = Url(WebUpstream(repo)) /\ UNCHANGED warned
                        ELSE warned' = TRUE /\ UNCHANGED upstream
    /\ UNCHANGED <<world, walk, session, fetch, remotes>>

\* the loop runs out of lines: the method returns None
UrlEnd ==
    /\ url_pc = "loop" /\ url_lines = <<>>
    /\ url_pc' = "done"
    /\ UNCHANGED <<world, walk, session, fetch, remotes, url_lines, upstream, warned>>

UrlNext ==
    \/ UrlLine
    \/ UrlEnd

UrlSpec == UrlInit /\ [][UrlNext]_vars

(* ------------------------ file_contents_at_rev ------------------------ *)
Commands == {"hg", "git"}
Revisions == {<<"7">>, <<"t", "i", "p">>}
fetch_classes == <<"Mercurial", "Git">>

\* cls.command
Command(cls) == IF cls = "Mercurial" THEN "hg" ELSE IF cls = "Git" THEN "git" ELSE "p4"

\* the command line and working directory of cls.get_contents(path, revision)
GetContents(cls, path, rev) ==
    LET head == Dirname(path)
        tail == path[Len(path)]
    IN IF cls = "Mercurial"
       THEN [command |-> Command(cls), cwd |-> head,
             args |-> <<<<"c", "a", "t">>, <<"-", "r">>, rev, tail>>]
       ELSE [command |-> Command(cls), cwd |-> head,
             args |-> <<<<"s", "h", "o", "w">>, rev \o <<":", ".", "/">> \o tail>>]

\* subprocess.check_output: OSError when the executable is absent,
\* CalledProcessError when it exits non-zero, else what it printed
Outcome(call) ==
    IF call.command \notin installed THEN "OSError"
    ELSE IF call.command \notin serves THEN "CalledProcessError"
    ELSE "output"

\* what the invocation printed, told apart by the invocation
Output(call) == [none |-> FALSE, command |-> call.command, cwd |-> call.cwd, args |-> call.args]

\* the exceptions the loop of file_contents_at_rev catches
Caught == {"CalledProcessError"}

FetchInit ==
    /\ TreeIdle
    /\ UrlIdle
    /\ installed \in SUBSET Commands
    /\ serves \in SUBSET Commands
    /\ abspath \in Files
    /\ revision \in Revisions
    /\ fetch_i = 1
    /\ fetch_pc = "loop"
    /\ fetch_result = NoContent

\* one turn of `for cls in [Mercurial, Git]`
FetchTry ==
    /\ fetch_pc = "loop" /\ fetch_i <= Len(fetch_classes)
    /\ LET call == GetContents(fetch_classes[fetch_i], abspath, revision)
           outcome == Outcome(call)
       IN IF outcome = "output"
          THEN /\ fetch_result' = Output(call)
               /\ fetch_pc' = "returned"
               /\ UNCHANGED fetch_i
          ELSE IF outcome \in Caught
          THEN /\ fetch_i' = fetch_i + 1
               /\ UNCHANGED <<fetch_pc, fetch_result>>
          ELSE /\ fetch_pc' = "raised"
               /\ UNCHANGED <<fetch_i, fetch_result>>
    /\ UNCHANGED <<world, walk, session, url, installed, serves, abspath, revision>>

\* every class failed: return None
FetchNone ==
    /\ fetch_pc = "loop" /\ fetch_i > Len(fetch_classes)
    /\ fetch_pc' = "returned"
    /\ UNCHANGED <<world, walk, session, url, installed, serves, abspath, revision,
                   fetch_i, fetch_result>>

FetchNext ==
    \/ FetchTry
    \/ FetchNone

FetchSpec == FetchInit /\ [][FetchNext]_vars

(* ------------------------------ claims -------------------------------- *)
\* C1: within one VcsCache session any two calls of vcs_for_path on the same path
\* return the identical result, the same handle or absent, whatever was resolved
\* in between.
C1_SameResultEveryCall ==
    \A p \in DOMAIN answered : Cardinality(answered[p]) <= 1

\* a path answered by a handle and once more from the cache, a second path answered
\* absent and once more by iterating
C1_Witness ==
    /\ recalled /\ rescanned
    /\ \E p, q \in DOMAIN answered :
        /\ p # q
        /\ answered[p] # {} /\ NoVcs \notin answered[p]
        /\ answered[q] = {NoVcs}

\* C2: after vcs_for_path(p) returns, p is a key of the path cache whatever the
\* outcome, so that no later call on p iterates the registry again.
C2_EveryOutcomeCached ==
    /\ \A p \in DOMAIN answered : answered[p] # {} => CacheKey(p) \in DOMAIN path_cache
    /\ ~rescanned

\* the registry items whose root has p in its subtree and whose handle tracks p
\* relative to its own root
Owners(p) ==
    {i \in 1..Len(repos) :
        /\ IsPrefix(repos[i].root, AbsPath(p))
        /\ IsTracked(repos[i].vcs, Relpath(AbsPath(p), repos[i].vcs.root))}

\* the handle of the deepest of them, absent when there is none
DeepestOwner(p) ==
    IF Owners(p) = {} THEN NoVcs
    ELSE LET i == CHOOSE k \in Owners(p) :
                    \A m \in Owners(p) : Len(repos[k].root) >= Len(repos[m].root)
         IN repos[i].vcs

\* C3: vcs_for_path(p) returns the handle of the deepest registry root that has p
\* in its subtree and whose handle tracks p, and absent when there is none.
C3_DeepestTrackingRoot ==
    \A p \in DOMAIN answered : answered[p] \subseteq {DeepestOwner(p)}

\* no name on the path begins with two dots
PlainNames(p) == \A k \in 1..Len(p) : ~StartsWith(p[k], DOTDOT)

\* the rule of C3 on the paths whose names are plain: there the code keeps it, the
\* nested root that does not track a file giving way to the ancestor that does
DeepestTrackingRoot_PlainNames ==
    \A p \in DOMAIN answered : PlainNames(p) => answered[p] \subseteq {DeepestOwner(p)}

\* a path under a nested root that does not track it, resolved to an ancestor root
NestedGivesWay ==
    \E p \in DOMAIN answered : \E i, j \in 1..Len(repos) :
        /\ ProperSubdir(repos[i].root, repos[j].root)
        /\ <<p, repos[i].root>> \in probed
        /\ answered[p] = {repos[j].vcs}

\* C4: in the mapping tree_to_repos returns, a root that is a proper subdirectory
\* of another root comes before it, for roots of the downward and the upward walk.
C4_DeepestFirst ==
    \A i, j \in 1..Len(repos) :
        ProperSubdir(repos[i].root, repos[j].root) => i < j

\* a root below the source folder, claimed by the downward walk, together with a
\* root above it, added by the upward walk
C4_Witness ==
    \E i, j \in 1..Len(repos) :
        /\ ProperSubdir(repos[i].root, source_folder)
        /\ ProperSubdir(source_folder, repos[j].root)

\* does backend vcs find its marker at directory d?
Marked(vcs, d) == Claims(vcs, d, ListDir(d))

\* the first backend, in the order of every_vcs, that finds its marker at d
FirstClaimant(d) ==
    every_vcs[CHOOSE k \in 1..Len(every_vcs) :
        /\ Marked(every_vcs[k], d)
        /\ \A m \in 1..(k - 1) : ~Marked(every_vcs[m], d)]

\* C5: a directory that several backends can claim is entered in the registry with
\* the handle of the first backend in the order Mercurial, Git, Perforce, and no
\* further backend is tried (no further handle constructed) for it.
C5_FirstBackendWins ==
    phase = "done" =>
        /\ \A i \in 1..Len(repos) : repos[i].vcs.kind = FirstClaimant(repos[i].root)
        /\ constructed = Len(repos)

\* the roots the upward walk added
UpRoots == {d \in DOMAIN sources : ProperSubdir(source_folder, d)}

Claimable(d) == \E k \in 1..Len(every_vcs) : Marked(every_vcs[k], d)

Between(d) == {e \in Dirs : ProperSubdir(source_folder, e) /\ ProperSubdir(e, d)}

\* the upward walk while it runs and when it has ended
C6_UpwardSafety ==
    phase \in {"up", "upclaim", "sort"} =>
        /\ IsPrefix(directory, source_folder)
        /\ directory # source_folder => source_folder \notin DOMAIN sources
        /\ Cardinality(UpRoots) <= 1
        /\ \A d \in UpRoots : d = directory
        /\ \A e \in Between(directory) : ~Claimable(e)
        /\ (phase = "sort" /\ UpRoots = {} /\ source_folder \notin DOMAIN sources)
              => directory = ROOT /\ ~Claimable(ROOT)

NoMarkers == \A d \in Dirs : fs[d] = {}

C7_FailureStaysInsideTheClaim ==
    raised # {} => phase # "raised"

\* the loop's own test of containment: the first component of the relative path is
\* the parent-directory component
Escapes(p, r) ==
    LET parts == RelParts(AbsPath(p), r)
    IN parts # <<>> /\ parts[1] = DOTDOT

\* C10: vcs_for_path passes over a root exactly when the path's relative path from
\* it escapes upward; a path in the root's subtree reaches the root's is_tracked
\* whatever its names are.
C10_SkippedIffEscapes ==
    /\ \A pr \in skipped : Escapes(pr[1], pr[2])
    /\ \A pr \in probed : ~Escapes(pr[1], pr[2])

\* the remote named origin that `git remote -v` lists first
FirstOrigin ==
    LET at == {k \in 1..Len(remotes) : remotes[k].name = Origin}
    IN remotes[CHOOSE k \in at : \A m \in at : k <= m]

\* C8: a Git handle whose origin remote is git@github.com:org/repo.git gets the
\* upstream base https://github.com/org/repo/, the prefix replaced and the .git
\* suffix stripped.
C8_SshRemoteBecomesWebBase ==
    (/\ url_pc = "done"
     /\ \E k \in 1..Len(remotes) : remotes[k].name = Origin
     /\ FirstOrigin.form = GitAtGithub
     /\ FirstOrigin.dotgit)
    => upstream = Url(HttpsGithub \o FirstOrigin.org \o SLASH \o FirstOrigin.repo \o SLASH)

\* the classes, in the order tried, whose executable is present and exits 0
Serving == {k \in 1..Len(fetch_classes) :
               Command(fetch_classes[k]) \in installed \cap serves}

\* C9: file_contents_at_rev tries Mercurial, then Git, returns what the first
\* backend whose fetch succeeds printed, and None when both fail; no failure of a
\* backend invocation, non-zero exit or absent executable, reaches the caller.
C9_FetchFailuresAreSkipped ==
    /\ fetch_pc # "raised"
    /\ fetch_pc = "returned" =>
          fetch_result =
              IF Serving = {} THEN NoContent
              ELSE Output(GetContents(
                       fetch_classes[CHOOSE k \in Serving : \A m \in Serving : k <= m],
                       abspath, revision))

====
